---- MODULE Spec2Model ----
(***************************************************************************)
(* Model of mcp-server/src/index.ts: the ClaudeGitHubLogger class (local   *)
(* configuration store, webhook relay, transcript walk over the GitHub     *)
(* contents API) and the CallTool dispatch handler with its five tools.    *)
(*                                                                         *)
(* JavaScript values are modelled as follows.  An undefined string-typed   *)
(* value is the marker Undef; an optional non-string argument is a tuple   *)
(* that is empty when the argument is omitted; null (this.config = null)   *)
(* is the record Null.  A thrown exception is a record field threw = TRUE  *)
(* with the Error's message; try/catch blocks are the places where that    *)
(* flag is cleared.  Text built with template literals is a sequence of    *)
(* string segments.                                                        *)
(***************************************************************************)
EXTENDS Integers, Sequences, FiniteSets, TLC

VARIABLES
    file,                \* content of ~/.claude-github-logger.json on disk
    config,              \* ClaudeGitHubLogger.config (in memory)
    currentUserMessage,  \* ClaudeGitHubLogger.currentUserMessage
    call,                \* the CallTool request being answered: [name, args]
    response,            \* the response returned for it
    posted,              \* webhook POST bodies sent while answering it
    relay,               \* outcome of the sendToN8N call made while answering it
    wrote,               \* whether fs.writeFile was called while answering it
    server,              \* the remote repository (a description, see Repository)
    walk,                \* outcome of the last retrieveTranscripts call
    loaded               \* value returned by the last direct loadConfig call

vars == <<file, config, currentUserMessage, call, response, posted, relay,
          wrote, server, walk, loaded>>

----------------------------------------------------------------------------
(* JavaScript values *)

Undef == "<undefined>"

Null == [null |-> TRUE]

\* truthiness of a string-typed value: undefined and '' are falsy
Truthy(v) == v # Undef /\ v # ""

\* a || b on string-typed values
OrElse(a, b) == IF Truthy(a) THEN a ELSE b

\* `${v}` in a template literal
Str(v) == IF v = Undef THEN "undefined" ELSE v

\* a JavaScript exception travelling up the stack, or none
\* (the message is the sequence of segments of the Error's message text)
NoThrow == [threw |-> FALSE, message |-> <<>>]

Throw(msg) == [threw |-> TRUE, message |-> msg]

RECURSIVE Concat(_)
\* the concatenation of a sequence of sequences
Concat(ss) == IF ss = <<>> THEN <<>> ELSE Head(ss) \o Concat(Tail(ss))

\* Array.prototype.slice(0, end) on a sequence, end an integer
SliceEnd(s, end) ==
    LET n == Len(s)
        e == IF end < 0 THEN (IF n + end < 0 THEN 0 ELSE n + end)
             ELSE IF end > n THEN n ELSE end
    IN  SubSeq(s, 1, e)

----------------------------------------------------------------------------
(* LoggerConfig and its JSON text *)

ConfigKeys ==
    {"webhook_url", "github_repo", "github_token", "session_id", "auto_log", "project"}

\* interface LoggerConfig
LoggerConfig(webhook_url, github_repo, session_id, auto_log, project, github_token) ==
    [webhook_url |-> webhook_url, github_repo |-> github_repo,
     github_token |-> github_token, session_id |-> session_id,
     auto_log |-> auto_log, project |-> project]

\* whether JSON.stringify writes property k of object c: a property whose
\* value is undefined is left out of the text
JsonWrites_dropsProject(c, k) == k # "project" /\ (k = "auto_log" \/ c[k] # Undef)

JsonWrites(c, k) == k = "auto_log" \/ c[k] # Undef

\* JSON.stringify(config, null, 2): the properties written, with their values
JsonStringify(c) ==
    [k \in {x \in ConfigKeys : JsonWrites(c, x)} |-> c[k]]

\* JSON.parse(data) of an object text: reading a property the text does not
\* hold gives undefined
JsonParse(text) ==
    [k \in ConfigKeys |-> IF k \in DOMAIN text THEN text[k] ELSE Undef]

\* the states of the configuration file
FileMissing == [kind |-> "missing"]

FileUnreadable == [kind |-> "unreadable"]

FileMalformed == [kind |-> "malformed"]

FileJson(text) == [kind |-> "json", text |-> text]

\* fs.readFile(configPath, 'utf8') followed by JSON.parse, the body of the try
loadConfigBody(f) ==
    IF f.kind = "missing" THEN [exc |-> Throw(<<"ENOENT: no such file or directory">>), value |-> Null]
    ELSE IF f.kind = "unreadable" THEN [exc |-> Throw(<<"EACCES: permission denied">>), value |-> Null]
    ELSE IF f.kind = "malformed" THEN [exc |-> Throw(<<"Unexpected token in JSON">>), value |-> Null]
    ELSE [exc |-> NoThrow, value |-> JsonParse(f.text)]

loadConfig_nocatch(f, cfg) ==
    LET b == loadConfigBody(f)
    IN  [exc |-> b.exc, config |-> IF b.exc.threw THEN cfg ELSE b.value, ret |-> b.value]

\* loadConfig(): this.config is assigned only when read and parse succeed;
\* the catch returns null and leaves this.config as it was
loadConfig(f, cfg) ==
    LET b == loadConfigBody(f)
    IN  IF b.exc.threw
        THEN [exc |-> NoThrow, config |-> cfg, ret |-> Null]
        ELSE [exc |-> NoThrow, config |-> b.value, ret |-> b.value]

\* the outcomes of fs.writeFile
WriteOutcomes == {"ok", "fail_untouched", "fail_truncated"}

\* saveConfig(config): this.config is assigned first, then the file is written;
\* a failed write throws after the assignment and leaves the file as it was or
\* cut short
saveConfig(f, c, outcome) ==
    [config |-> c,
     file   |-> IF outcome = "ok" THEN FileJson(JsonStringify(c))
                ELSE IF outcome = "fail_truncated" THEN FileMalformed
                ELSE f,
     exc    |-> IF outcome = "ok" THEN NoThrow ELSE Throw(<<"EACCES: permission denied, open">>)]

----------------------------------------------------------------------------
(* Log Relay: sendToN8N *)

\* interface ChatLogEntry (the timestamp is not sent and is left out)
ChatLogEntry(session_id, user_msg, assistant_msg, tools_used, project) ==
    [session_id |-> session_id, user_msg |-> user_msg, assistant_msg |-> assistant_msg,
     model |-> "claude-sonnet-4", tools_used |-> tools_used, project |-> project]

\* Response.ok of node-fetch: the status is in the range 200-299
ResponseOk_below400(status) == status < 400

ResponseOk(status) == 200 <= status /\ status <= 299

\* Response.statusText for the statuses the model uses
StatusText(status) ==
    CASE status = 200 -> "OK"
      [] status = 201 -> "Created"
      [] status = 299 -> ""
      [] status = 301 -> "Moved Permanently"
      [] status = 403 -> "Forbidden"
      [] status = 404 -> "Not Found"
      [] status = 500 -> "Internal Server Error"
      [] OTHER -> ""

\* what the webhook endpoint does with one POST: the request fails (kind
\* "throw"), or it answers with a status and a reply body that is a JSON
\* object, the JSON text null, or no JSON at all
WebThrow == [kind |-> "throw", status |-> 0, reply |-> [json |-> "invalid"]]

WebHttp(status, reply) == [kind |-> "http", status |-> status, reply |-> reply]

ReplyObject(latest_url, dated_url, project_latest_url) ==
    [json |-> "object", ok |-> TRUE, latest_url |-> latest_url, dated_url |-> dated_url,
     project_latest_url |-> project_latest_url]

ReplyNull == [json |-> "null"]

ReplyNotJson == [json |-> "invalid"]

NoRelay == [called |-> FALSE]

\* (a variant that sends a session id of its own making with every POST)
relayPayload_ownSession(cfg, entry) ==
    [session_id |-> "claude-9", model |-> entry.model,
     tools_used |-> entry.tools_used, user_message |-> entry.user_msg,
     assistant_message |-> entry.assistant_msg,
     project |-> OrElse(OrElse(entry.project, cfg.project), "")]

\* the payload object of sendToN8N
relayPayload(cfg, entry) ==
    [session_id |-> entry.session_id, model |-> entry.model,
     tools_used |-> entry.tools_used, user_message |-> entry.user_msg,
     assistant_message |-> entry.assistant_msg,
     project |-> OrElse(OrElse(entry.project, cfg.project), "")]

\* the Error thrown for a response that is not ok
httpError_nostatus(web) == Throw(<<"HTTP error: ", StatusText(web.status)>>)

httpError(web) == Throw(<<"HTTP ", ToString(web.status), ": ", StatusText(web.status)>>)

\* sendToN8N(entry) against an endpoint that behaves as web: the exception
\* thrown or the value returned, and the POST bodies sent
sendToN8N(cfg, entry, web) ==
    IF cfg = Null \/ ~Truthy(cfg.webhook_url)
    THEN [called |-> TRUE, exc |-> Throw(<<"Webhook URL not configured">>),
          posted |-> <<>>, web |-> web, value |-> ReplyNull]
    ELSE LET sent == <<[url |-> cfg.webhook_url, body |-> relayPayload(cfg, entry)]>>
         IN  IF web.kind = "throw"
             THEN [called |-> TRUE, exc |-> Throw(<<"request to webhook failed">>),
                   posted |-> sent, web |-> web, value |-> ReplyNull]
             ELSE IF ~ResponseOk(web.status)
             THEN [called |-> TRUE, exc |-> httpError(web),
                   posted |-> sent, web |-> web, value |-> ReplyNull]
             ELSE IF web.reply.json = "invalid"
             THEN [called |-> TRUE, exc |-> Throw(<<"invalid json response body">>),
                   posted |-> sent, web |-> web, value |-> ReplyNull]
             ELSE [called |-> TRUE, exc |-> NoThrow,
                   posted |-> sent, web |-> web, value |-> web.reply]

----------------------------------------------------------------------------
(* The remote repository as the walk sees it *)

\* a url is a tuple of path segments; an absent url (undefined) is the empty one
NoUrl == <<>>

\* the body of an HTTP response: plain text, a JSON object (file metadata), a
\* JSON array (a directory listing), or a body whose read fails half way
TextBody(raw) == [form |-> "text", raw |-> raw, download_url |-> NoUrl, items |-> <<>>]

ObjectBody(download_url) ==
    [form |-> "object", raw |-> "{json object}", download_url |-> download_url, items |-> <<>>]

ArrayBody(items) ==
    [form |-> "array", raw |-> "[json array]", download_url |-> NoUrl, items |-> items]

AbortedBody == [form |-> "aborted", raw |-> "", download_url |-> NoUrl, items |-> <<>>]

\* what fetch(url) does: it rejects, or it resolves to a response
FetchThrows == [kind |-> "throw", status |-> 0, body |-> AbortedBody]

Http(status, body) == [kind |-> "http", status |-> status, body |-> body]

\* a RemoteEntry of a directory listing; name is a sequence of characters
Entry(name, type, url, download_url) ==
    [name |-> name, type |-> type, url |-> url, download_url |-> download_url]

\* fetch(url, { headers }) against the repository srv: a url the repository
\* does not hold is answered 404, and fetch(undefined) rejects
Fetch(srv, url) ==
    IF url \in DOMAIN srv THEN srv[url]
    ELSE IF url = NoUrl THEN FetchThrows
    ELSE Http(404, TextBody("Not Found"))

\* response.json() throws unless the body is JSON
JsonThrows(body) == body.form \notin {"object", "array"}

\* response.text() throws when the body cannot be read to its end
TextThrows(body) == body.form = "aborted"

----------------------------------------------------------------------------
(* Transcript Collector: retrieveTranscripts and getTranscriptsFromYearFolder *)

Digits == {"0", "1", "2", "3", "4", "5", "6", "7", "8", "9"}

RECURSIVE MatchDigits(_, _, _)
\* the regular expression \d{n}$ run on name from position i: n times one
\* character of 0-9, then the end of the input
MatchDigits(name, i, n) ==
    IF n = 0 THEN i = Len(name) + 1
    ELSE i <= Len(name) /\ name[i] \in Digits /\ MatchDigits(name, i + 1, n - 1)

\* /^\d{4}$/.test(name)
IsYearName_prefix(name) == Len(name) >= 4 /\ \A i \in 1..4 : name[i] \in Digits

IsYearName(name) == MatchDigits(name, 1, 4)

\* item.type === 'dir' && /^\d{4}$/.test(item.name)
IsYearFolder_anyType(item) == IsYearName(item.name)

IsYearFolder(item) == item.type = "dir" /\ IsYearName(item.name)

\* name.endsWith('.md')
EndsWithMd(name) ==
    LET n == Len(name)
    IN  n >= 3 /\ name[n - 2] = "." /\ name[n - 1] = "m" /\ name[n] = "d"

\* the state of one retrieveTranscripts call: the transcripts array, the
\* requests made so far (url and the step that made it), and whether an
\* exception is travelling up
WalkStart == [transcripts |-> <<>>, log |-> <<>>, threw |-> FALSE]

Logged(st, url, step) == [st EXCEPT !.log = Append(@, [url |-> url, step |-> step])]

Raise(st) == [st EXCEPT !.threw = TRUE]

\* catch (error) { console.error(...) }: the exception ends here and the
\* transcripts collected so far are kept
Caught_cleared(st) == [st EXCEPT !.threw = FALSE, !.transcripts = <<>>]

Caught(st) == [st EXCEPT !.threw = FALSE]

\* transcripts.push(text)
Push_front(st, text) == [st EXCEPT !.transcripts = <<text>> \o @]

Push(st, text) == [st EXCEPT !.transcripts = Append(@, text)]

\* const content = await fetch(download_url, { headers });
\* if (content.ok) transcripts.push(await content.text());
pushDownload(srv, st, url, step) ==
    LET r  == Fetch(srv, url)
        s1 == Logged(st, url, step)
    IN  IF r.kind = "throw" THEN Raise(s1)
        ELSE IF ~ResponseOk(r.status) THEN s1
        ELSE IF TextThrows(r.body) THEN Raise(s1)
        ELSE Push(s1, r.body.raw)

\* the body of the try around a latest.md: fetch its metadata and, when that
\* is ok and names a download_url, fetch and push the content
latestBody(srv, st, url, step, rawStep) ==
    LET r  == Fetch(srv, url)
        s1 == Logged(st, url, step)
    IN  IF r.kind = "throw" THEN Raise(s1)
        ELSE IF ~ResponseOk(r.status) THEN s1
        ELSE IF JsonThrows(r.body) THEN Raise(s1)
        ELSE IF r.body.download_url # NoUrl
        THEN pushDownload(srv, s1, r.body.download_url, rawStep)
        ELSE s1

\* https://api.github.com/repos/${github_repo}/contents/transcripts/latest.md
LatestUrl(repo) == <<"api", repo, "transcripts", "latest.md">>

\* .../contents/transcripts/${project}/latest.md
ProjectLatestUrl(repo, project) == <<"api", repo, "transcripts", project, "latest.md">>

\* .../contents/transcripts/${project}
ProjectFolderUrl(repo, project) == <<"api", repo, "transcripts", project>>

\* "Always get the main latest.md file", with its try/catch
fetchLatest(srv, st, repo) ==
    Caught(latestBody(srv, st, LatestUrl(repo), "latest", "latest_raw"))

\* the project's latest.md, with its try/catch
fetchProjectLatest(srv, st, repo, project) ==
    Caught(latestBody(srv, st, ProjectLatestUrl(repo, project),
                      "project_latest", "project_latest_raw"))

RECURSIVE forFiles(_, _, _)
\* for (const file of dateContents): an exception ends the loop
forFiles(srv, st, files) ==
    IF files = <<>> \/ st.threw THEN st
    ELSE LET f == Head(files)
         IN  forFiles(srv,
                      IF EndsWithMd(f.name) /\ f.download_url # NoUrl
                      THEN pushDownload(srv, st, f.download_url, "file_raw")
                      ELSE st,
                      Tail(files))

\* (a variant that lists a date folder again when its first listing held
\* entries, as a walk that followed what it was given would)
dateFolder_again(srv, st, dateItem) ==
    IF dateItem.type # "dir" THEN st
    ELSE LET r  == Fetch(srv, dateItem.url)
             s1 == Logged(st, dateItem.url, "date")
         IN  IF r.kind = "throw" THEN Raise(s1)
             ELSE IF ~ResponseOk(r.status) THEN s1
             ELSE IF JsonThrows(r.body) \/ r.body.form # "array" THEN Raise(s1)
             ELSE forFiles(srv, Logged(s1, dateItem.url, "date"), r.body.items)

\* one turn of the loop over yearContents: a directory entry is listed and
\* its files fetched
dateFolder(srv, st, dateItem) ==
    IF dateItem.type # "dir" THEN st
    ELSE LET r  == Fetch(srv, dateItem.url)
             s1 == Logged(st, dateItem.url, "date")
         IN  IF r.kind = "throw" THEN Raise(s1)
             ELSE IF ~ResponseOk(r.status) THEN s1
             ELSE IF JsonThrows(r.body) \/ r.body.form # "array" THEN Raise(s1)
             ELSE forFiles(srv, s1, r.body.items)

RECURSIVE forDates(_, _, _)
\* for (const dateItem of yearContents): an exception ends the loop
forDates(srv, st, dates) ==
    IF dates = <<>> \/ st.threw THEN st
    ELSE forDates(srv, dateFolder(srv, st, Head(dates)), Tail(dates))

\* the body of the try of getTranscriptsFromYearFolder
yearFolderBody(srv, st, yearFolderUrl) ==
    LET r  == Fetch(srv, yearFolderUrl)
        s1 == Logged(st, yearFolderUrl, "year")
    IN  IF r.kind = "throw" THEN Raise(s1)
        ELSE IF ~ResponseOk(r.status) THEN s1
        ELSE IF JsonThrows(r.body) \/ r.body.form # "array" THEN Raise(s1)
        ELSE forDates(srv, s1, r.body.items)

\* getTranscriptsFromYearFolder(yearFolderUrl, transcripts, headers)
getTranscriptsFromYearFolder(srv, st, yearFolderUrl) ==
    Caught(yearFolderBody(srv, st, yearFolderUrl))

RECURSIVE forYears(_, _, _)
\* for (const item of folderContents): year folders are descended into
forYears(srv, st, items) ==
    IF items = <<>> \/ st.threw THEN st
    ELSE forYears(srv,
                  IF IsYearFolder(Head(items))
                  THEN getTranscriptsFromYearFolder(srv, st, Head(items).url)
                  ELSE st,
                  Tail(items))

\* the body of the try around the project folder listing
projectFolderBody(srv, st, repo, project) ==
    LET url == ProjectFolderUrl(repo, project)
        r   == Fetch(srv, url)
        s1  == Logged(st, url, "project_folder")
    IN  IF r.kind = "throw" THEN Raise(s1)
        ELSE IF ~ResponseOk(r.status) THEN s1
        ELSE IF JsonThrows(r.body) \/ r.body.form # "array" THEN Raise(s1)
        ELSE forYears(srv, s1, r.body.items)

\* (a variant in which a non-success status of the folder listing is raised
\* outside the try, so that only the outer catch of retrieveTranscripts sees it)
browseProjectFolder_strict(srv, st, repo, project) ==
    LET r == Fetch(srv, ProjectFolderUrl(repo, project))
    IN  IF r.kind = "http" /\ ~ResponseOk(r.status)
        THEN Raise(Logged(st, ProjectFolderUrl(repo, project), "project_folder"))
        ELSE Caught(projectFolderBody(srv, st, repo, project))

\* "Try to get archived files from project folder", with its try/catch
browseProjectFolder(srv, st, repo, project) ==
    Caught(projectFolderBody(srv, st, repo, project))

\* the outcome of a retrieveTranscripts call that was not made
NoWalk == [called |-> FALSE, exc |-> NoThrow, transcripts |-> <<>>, log |-> <<>>]

\* (a variant that takes every project that is not undefined as given, the
\* empty string included)
ProjectGiven_defined(project) == project # Undef

\* if (project): a project was given, and is not the empty string
ProjectGiven(project) == Truthy(project)

\* retrieveTranscripts(project) with this.config = cfg against repository srv
retrieveTranscripts(cfg, srv, project) ==
    IF cfg = Null \/ ~Truthy(cfg.github_repo)
    THEN [called |-> TRUE, exc |-> Throw(<<"GitHub repo not configured">>),
          transcripts |-> <<>>, log |-> <<>>]
    ELSE LET s1 == fetchLatest(srv, WalkStart, cfg.github_repo)
             s2 == IF s1.threw \/ ~ProjectGiven(project) THEN s1
                   ELSE fetchProjectLatest(srv, s1, cfg.github_repo, project)
             s3 == IF s2.threw \/ ~ProjectGiven(project) THEN s2
                   ELSE browseProjectFolder(srv, s2, cfg.github_repo, project)
         IN  \* the outer catch returns [] for an exception no inner try caught
             [called |-> TRUE, exc |-> NoThrow,
              transcripts |-> IF s3.threw THEN <<>> ELSE s3.transcripts,
              log |-> s3.log]

----------------------------------------------------------------------------
(* Repositories the walk is run against *)

\* the longest directory listing a repository of the model returns
MaxList == 2

\* the largest number of urls of one repository that answer with a failure
MaxFaults == 2

Repo == "o/r"

Proj == "p"

uLatest == LatestUrl(Repo)

uLatestRaw == <<"raw", Repo, "transcripts", "latest.md">>

uPLatest == ProjectLatestUrl(Repo, Proj)

uPLatestRaw == <<"raw", Repo, "transcripts", Proj, "latest.md">>

uFolder == ProjectFolderUrl(Repo, Proj)

uY1 == uFolder \o <<"2025">>

uY2 == uFolder \o <<"2024">>

uD1 == uY1 \o <<"2025-09-13">>

uD2 == uY1 \o <<"2025-09-14">>

uD3 == uY2 \o <<"2024-12-31">>

uF1 == <<"raw", Repo, "transcripts", Proj, "session-a.md">>

uF2 == <<"raw", Repo, "transcripts", Proj, "session-b.md">>

uF3 == <<"raw", Repo, "transcripts", Proj, "session-c.md">>

Urls == {uLatest, uLatestRaw, uPLatest, uPLatestRaw, uFolder, uY1, uY2,
         uD1, uD2, uD3, uF1, uF2, uF3}

\* whether a url lies under transcripts/p/
UnderProject(u) == Len(u) >= 4 /\ u[3] = "transcripts" /\ u[4] = Proj

\* entries a project folder listing may hold: year folders, a file named
\* like a year, directories whose names are no year, a year folder whose url
\* points back at the project folder
FolderEntries ==
    {Entry(<<"2", "0", "2", "5">>, "dir", uY1, NoUrl),
     Entry(<<"2", "0", "2", "4">>, "dir", uY2, NoUrl),
     Entry(<<"2", "0", "2", "3">>, "file", uY1, uF3),
     Entry(<<"2", "0", "2">>, "dir", uY1, NoUrl),
     Entry(<<"2", "0", "2", "5", "1">>, "dir", uY2, NoUrl),
     Entry(<<"2", "0", "2", "x">>, "dir", uY1, NoUrl),
     Entry(<<"1", "9", "9", "9">>, "dir", uFolder, NoUrl)}

\* entries a year folder listing may hold: date folders, a file, a directory
\* whose url points back at the year folder
YearEntries ==
    {Entry(<<"2", "0", "2", "5", "-", "0", "9", "-", "1", "3">>, "dir", uD1, NoUrl),
     Entry(<<"2", "0", "2", "5", "-", "0", "9", "-", "1", "4">>, "dir", uD2, NoUrl),
     Entry(<<"n", "o", "t", "e", "s", ".", "m", "d">>, "file", uD1, uF3),
     Entry(<<"u", "p">>, "dir", uY1, NoUrl)}

\* entries a date folder listing may hold: transcripts, a file with another
\* suffix, a transcript without download_url, a directory named like one
FileEntries ==
    {Entry(<<"a", ".", "m", "d">>, "file", NoUrl, uF1),
     Entry(<<"b", ".", "m", "d">>, "file", NoUrl, uF2),
     Entry(<<"c", ".", "t", "x", "t">>, "file", NoUrl, uF3),
     Entry(<<"d", ".", "m", "d">>, "file", NoUrl, NoUrl),
     Entry(<<"e", ".", "m", "d">>, "dir", uD2, uF3)}

\* the sequences over E of length at most n
Listings(E, n) == UNION {[1..k -> E] : k \in 0..n}

EntryWith(E, name) == CHOOSE e \in E : e.name = name

\* the listings of the repository the others are variations of
BaseLayout ==
    [folder |-> <<EntryWith(FolderEntries, <<"2", "0", "2", "5">>),
                  EntryWith(FolderEntries, <<"2", "0", "2", "4">>)>>,
     y1 |-> <<EntryWith(YearEntries, <<"2", "0", "2", "5", "-", "0", "9", "-", "1", "3">>),
              EntryWith(YearEntries, <<"2", "0", "2", "5", "-", "0", "9", "-", "1", "4">>)>>,
     y2 |-> <<Entry(<<"2", "0", "2", "4", "-", "1", "2", "-", "3", "1">>, "dir", uD3, NoUrl)>>,
     d1 |-> <<EntryWith(FileEntries, <<"a", ".", "m", "d">>),
              EntryWith(FileEntries, <<"b", ".", "m", "d">>)>>,
     d2 |-> <<EntryWith(FileEntries, <<"b", ".", "m", "d">>),
              EntryWith(FileEntries, <<"c", ".", "t", "x", "t">>)>>,
     d3 |-> <<Entry(<<"c", ".", "m", "d">>, "file", NoUrl, uF3)>>]

\* the repository with the listings of layout, every request succeeding
ServerOf(layout) ==
    (uLatest :> Http(200, ObjectBody(uLatestRaw))) @@
    (uLatestRaw :> Http(200, TextBody("root latest"))) @@
    (uPLatest :> Http(200, ObjectBody(uPLatestRaw))) @@
    (uPLatestRaw :> Http(200, TextBody("p latest"))) @@
    (uFolder :> Http(200, ArrayBody(layout.folder))) @@
    (uY1 :> Http(200, ArrayBody(layout.y1))) @@
    (uY2 :> Http(200, ArrayBody(layout.y2))) @@
    (uD1 :> Http(200, ArrayBody(layout.d1))) @@
    (uD2 :> Http(200, ArrayBody(layout.d2))) @@
    (uD3 :> Http(200, ArrayBody(layout.d3))) @@
    (uF1 :> Http(200, TextBody("session a"))) @@
    (uF2 :> Http(200, TextBody("session b"))) @@
    (uF3 :> Http(200, TextBody("session c")))

\* a repository without the project: every url under transcripts/p/ is
\* answered with the non-success status
NoProjectServer(status) ==
    [u \in Urls |-> IF UnderProject(u) THEN Http(status, TextBody(StatusText(status)))
                    ELSE ServerOf(BaseLayout)[u]]

\* the ways one url can fail: the request rejects, a non-success status, a
\* body that breaks off, a body that is no JSON, metadata without download_url
FaultKinds == {"throw", "404", "aborted", "notjson", "nodownload"}

Faulty(kind, r) ==
    CASE kind = "throw" -> FetchThrows
      [] kind = "404" -> Http(404, TextBody("Not Found"))
      [] kind = "aborted" -> Http(200, AbortedBody)
      [] kind = "notjson" -> Http(200, TextBody("<html>"))
      [] kind = "nodownload" -> Http(200, ObjectBody(NoUrl))

\* the sets of at most n urls
UrlSets(n) == {T \in SUBSET Urls : Cardinality(T) <= n}

\* the repository srv with the urls of faults failing as faults says
Overlay(srv, faults) ==
    [u \in DOMAIN srv |-> IF u \in DOMAIN faults THEN Faulty(faults[u], srv[u]) ELSE srv[u]]

\* a repository with twelve transcripts: two date folders of five files each
BigLayout ==
    [BaseLayout EXCEPT
       !.folder = <<BaseLayout.folder[1]>>,
       !.d1 = <<BaseLayout.d1[1], BaseLayout.d1[2], BaseLayout.d3[1],
                BaseLayout.d1[1], BaseLayout.d1[2]>>,
       !.d2 = <<BaseLayout.d3[1], BaseLayout.d1[2], BaseLayout.d1[1],
                BaseLayout.d3[1], BaseLayout.d1[2]>>]

\* The variable server describes the remote repository: the base layout
\* ("tree") with at most one listing replaced (vary names it), the repository
\* of twelve transcripts ("big"), one that answers 404 to everything
\* ("empty"), one without the project ("absent403", "absent404"); and the
\* urls that fail, with the way each does.
RepoDesc(base, vary, listing, faults) ==
    [base |-> base, vary |-> vary, listing |-> listing, faults |-> faults]

NoFaults == <<>>

LayoutOf(desc) ==
    CASE desc.vary = "folder" -> [BaseLayout EXCEPT !.folder = desc.listing]
      [] desc.vary = "y1" -> [BaseLayout EXCEPT !.y1 = desc.listing]
      [] desc.vary = "d1" -> [BaseLayout EXCEPT !.d1 = desc.listing]
      [] OTHER -> BaseLayout

\* the repository a description stands for: url -> response
Repository(desc) ==
    Overlay(CASE desc.base = "tree" -> ServerOf(LayoutOf(desc))
              [] desc.base = "big" -> ServerOf(BigLayout)
              [] desc.base = "absent403" -> NoProjectServer(403)
              [] desc.base = "absent404" -> NoProjectServer(404)
              [] OTHER -> [u \in Urls |-> Http(404, TextBody("Not Found"))],
            desc.faults)

EntriesOf(vary) ==
    CASE vary = "folder" -> FolderEntries
      [] vary = "y1" -> YearEntries
      [] vary = "d1" -> FileEntries

\* the repositories of the walk's specification: the base layout with one
\* listing replaced by any listing within MaxList and at most one fault, the
\* base layout with up to MaxFaults faults, the absent project
IsWalkServer(desc) ==
    \/ \E vary \in {"folder", "y1", "d1"}, S \in UrlSets(1) :
          \E l \in Listings(EntriesOf(vary), MaxList), fs \in [S -> FaultKinds] :
             desc = RepoDesc("tree", vary, l, fs)
    \/ \E S \in UrlSets(MaxFaults) : \E fs \in [S -> FaultKinds] :
          desc = RepoDesc("tree", "none", <<>>, fs)
    \/ \E base \in {"absent403", "absent404"}, S \in UrlSets(1) : \E fs \in [S -> FaultKinds] :
          desc = RepoDesc(base, "none", <<>>, fs)

\* the project arguments of the walk's specification
WalkProjects == {Undef, "", Proj, "q"}

\* the configuration the walk is run with
WalkConfig ==
    LoggerConfig("https://n8n.example/webhook/log", Repo, "claude-1", TRUE, Undef, "ghp_a")

NoCall == [name |-> "", args |-> [none |-> TRUE]]

NoResponse == [isError |-> FALSE, text |-> <<>>]

InitWalk ==
    /\ IsWalkServer(server)
    /\ config = WalkConfig
    /\ file = FileJson(JsonStringify(config))
    /\ currentUserMessage = ""
    /\ call = NoCall
    /\ response = NoResponse
    /\ posted = <<>>
    /\ relay = NoRelay
    /\ wrote = FALSE
    /\ walk = NoWalk
    /\ loaded = Null

\* one call of retrieveTranscripts(project)
WalkRetrieve(project) ==
    /\ ~walk.called
    /\ call' = [name |-> "retrieveTranscripts", args |-> [project |-> project]]
    /\ walk' = retrieveTranscripts(config, Repository(server), project)
    /\ UNCHANGED <<file, config, currentUserMessage, response, posted, relay, wrote,
                   server, loaded>>

NextWalk == \E project \in WalkProjects : WalkRetrieve(project)

SpecWalk == InitWalk /\ [][NextWalk]_vars

----------------------------------------------------------------------------
(* Properties of the walk, checked under SpecWalk *)

\* the repository of the current state
Remote == Repository(server)

\* a status of the range 200-299
Success(status) == status \in 200..299

\* the walk of the current state was made with a repository configured
Walked == walk.called /\ config.github_repo = Repo

\* whether log entry e is a download that delivered its body
Delivered(srv, e) ==
    /\ e.step \in {"latest_raw", "project_latest_raw", "file_raw"}
    /\ Fetch(srv, e.url).kind = "http"
    /\ Success(Fetch(srv, e.url).status)
    /\ Fetch(srv, e.url).body.form # "aborted"

\* whether the request of log entry e failed
FailedRequest(srv, e) ==
    \/ Fetch(srv, e.url).kind = "throw"
    \/ ~Success(Fetch(srv, e.url).status)
    \/ Fetch(srv, e.url).body.form = "aborted"

RECURSIVE DeliveredBodies(_, _)
\* the bodies the downloads of a request log delivered, in the order of the log
DeliveredBodies(srv, log) ==
    IF log = <<>> THEN <<>>
    ELSE (IF Delivered(srv, Head(log)) THEN <<Fetch(srv, Head(log).url).body.raw>> ELSE <<>>)
         \o DeliveredBodies(srv, Tail(log))

\* C1: whatever requests of the walk fail (a rejected request, a non-success
\* status, a body that cannot be read or parsed), retrieveTranscripts returns
\* without raising, and what it returns is every body a download delivered
\* during the walk, those delivered before a failing request included.
C1_PartialResultsKept ==
    Walked => /\ ~walk.exc.threw
              /\ walk.transcripts = DeliveredBodies(Remote, walk.log)

\* C1 witness: a walk that delivered a body, then had a request rejected and
\* another one answered with a non-success status, and still returned the body
C1_Witness ==
    /\ Walked
    /\ walk.transcripts # <<>>
    /\ \E i, j, k \in 1..Len(walk.log) :
          /\ i < j /\ i < k
          /\ Delivered(Remote, walk.log[i])
          /\ Fetch(Remote, walk.log[j].url).kind = "throw"
          /\ Fetch(Remote, walk.log[k].url).kind = "http"
          /\ ~Success(Fetch(Remote, walk.log[k].url).status)

\* the mark of an exception in a sequence of bodies
Thrown == "<exception>"

RECURSIVE BeforeThrow(_)
\* the bodies of a sequence that come before its first exception
BeforeThrow(ev) ==
    IF ev = <<>> \/ Head(ev) = Thrown THEN <<>> ELSE <<Head(ev)>> \o BeforeThrow(Tail(ev))

\* what a download of url yields: its body, nothing, or an exception
DownloadYield(srv, url) ==
    LET r == Fetch(srv, url)
    IN  IF r.kind = "throw" THEN <<Thrown>>
        ELSE IF ~Success(r.status) THEN <<>>
        ELSE IF r.body.form = "aborted" THEN <<Thrown>>
        ELSE <<r.body.raw>>

\* what a latest.md at a metadata url yields
LatestYield(srv, url) ==
    LET r == Fetch(srv, url)
    IN  IF r.kind = "throw" THEN <<Thrown>>
        ELSE IF ~Success(r.status) THEN <<>>
        ELSE IF r.body.form \notin {"object", "array"} THEN <<Thrown>>
        ELSE IF r.body.download_url = NoUrl THEN <<>>
        ELSE DownloadYield(srv, r.body.download_url)

\* what the listing at url yields: the yields of its entries one after the
\* other, nothing for a non-success status, an exception when it is no listing
ListingYield(srv, url, EntryYield(_)) ==
    LET r == Fetch(srv, url)
    IN  IF r.kind = "throw" THEN <<Thrown>>
        ELSE IF ~Success(r.status) THEN <<>>
        ELSE IF r.body.form # "array" THEN <<Thrown>>
        ELSE Concat([i \in 1..Len(r.body.items) |-> EntryYield(r.body.items[i])])

HasSuffixMd(name) ==
    Len(name) >= 3 /\ SubSeq(name, Len(name) - 2, Len(name)) = <<".", "m", "d">>

FileYield(srv, f) ==
    IF HasSuffixMd(f.name) /\ f.download_url # NoUrl
    THEN DownloadYield(srv, f.download_url) ELSE <<>>

DateYield(srv, d) ==
    IF d.type = "dir" THEN ListingYield(srv, d.url, LAMBDA f : FileYield(srv, f)) ELSE <<>>

\* a directory whose name is exactly four decimal digits
FourDigitDir(item) ==
    /\ item.type = "dir"
    /\ Len(item.name) = 4
    /\ \A i \in 1..4 : item.name[i] \in {"0", "1", "2", "3", "4", "5", "6", "7", "8", "9"}

YearYield(srv, item) ==
    IF FourDigitDir(item)
    THEN BeforeThrow(ListingYield(srv, item.url, LAMBDA d : DateYield(srv, d)))
    ELSE <<>>

\* the transcripts of repository srv in discovery order
DiscoveryOrder(srv, repo, project) ==
    BeforeThrow(LatestYield(srv, <<"api", repo, "transcripts", "latest.md">>))
    \o (IF project \in {Undef, ""} THEN <<>>
        ELSE BeforeThrow(LatestYield(srv, <<"api", repo, "transcripts", project, "latest.md">>))
             \o BeforeThrow(ListingYield(srv, <<"api", repo, "transcripts", project>>,
                                         LAMBDA y : YearYield(srv, y))))

\* C2: retrieveTranscripts returns the bodies in discovery order: the root
\* latest.md, the project's latest.md, then the archive, year folders, date
\* folders and files each in the order of their listing, duplicates kept.
C2_DiscoveryOrder ==
    Walked => walk.transcripts = DiscoveryOrder(Remote, Repo, call.args.project)

\* C2 witness: a walk that returned the root body, the project body and
\* archived bodies of two year folders, one body twice
C2_Witness ==
    /\ Walked
    /\ Len(walk.transcripts) >= 6
    /\ walk.transcripts[1] = "root latest"
    /\ walk.transcripts[2] = "p latest"
    /\ \E i, j \in 3..Len(walk.transcripts) : i < j /\ walk.transcripts[i] = walk.transcripts[j]
    /\ Cardinality({e \in 1..Len(walk.log) : walk.log[e].step = "year"}) = 2

\* the project folder listing the walk of the current state obtained
FolderListed ==
    /\ Walked
    /\ call.args.project = Proj
    /\ Fetch(Remote, uFolder).kind = "http"
    /\ Success(Fetch(Remote, uFolder).status)
    /\ Fetch(Remote, uFolder).body.form = "array"

FolderItems == Fetch(Remote, uFolder).body.items

RECURSIVE UrlsOfYears(_)
\* the urls of the four-digit directories of a listing, in its order
UrlsOfYears(items) ==
    IF items = <<>> THEN <<>>
    ELSE (IF FourDigitDir(Head(items)) THEN <<Head(items).url>> ELSE <<>>)
         \o UrlsOfYears(Tail(items))

RECURSIVE UrlsOfStep(_, _)
\* the urls a request log holds for one step of the walk, in its order
UrlsOfStep(log, step) ==
    IF log = <<>> THEN <<>>
    ELSE (IF Head(log).step = step THEN <<Head(log).url>> ELSE <<>>)
         \o UrlsOfStep(Tail(log), step)

\* C9: the year folders the walk lists are exactly the entries of the project
\* folder listing that are directories named with four decimal digits, once
\* each in listing order; a listing without such an entry causes no request
\* below the project folder and adds no body after the two latest.md.
C9_YearFoldersOnly ==
    FolderListed =>
        /\ UrlsOfStep(walk.log, "year") = UrlsOfYears(FolderItems)
        /\ UrlsOfYears(FolderItems) = <<>> =>
              /\ \A i \in 1..Len(walk.log) : walk.log[i].step \notin {"year", "date", "file_raw"}
              /\ walk.log[Len(walk.log)].step = "project_folder"
              /\ Len(walk.transcripts) <= 2

\* C9 witness: a listing of a file named like a year, which was not listed,
\* and a year folder, which was, and whose three transcripts were fetched
C9_Witness ==
    /\ FolderListed
    /\ Len(FolderItems) = 2
    /\ FolderItems[1].type = "file" /\ FolderItems[1].name = <<"2", "0", "2", "3">>
    /\ FolderItems[2].type = "dir" /\ FolderItems[2].name = <<"2", "0", "2", "5">>
    /\ UrlsOfStep(walk.log, "year") = <<uY1>>
    /\ Len(walk.transcripts) = 5

\* the project of the walk does not exist: every url of the repository under
\* transcripts/{project}/ is answered with a non-success status
ProjectAbsent(project) ==
    /\ project \notin {Undef, ""}
    /\ \A u \in DOMAIN Remote :
          (Len(u) >= 4 /\ u[3] = "transcripts" /\ u[4] = project)
              => Remote[u].kind = "http" /\ ~Success(Remote[u].status)

\* the root transcripts/latest.md can be retrieved
RootRetrievable ==
    /\ LatestYield(Remote, uLatest) # <<>>
    /\ LatestYield(Remote, uLatest) # <<Thrown>>

\* C10: with a project whose folder does not exist and a retrievable root
\* latest.md, retrieveTranscripts returns the root body alone and does not raise.
C10_AbsentProject ==
    (Walked /\ ProjectAbsent(call.args.project) /\ RootRetrievable) =>
        /\ ~walk.exc.threw
        /\ walk.transcripts = <<Remote[uLatestRaw].body.raw>>

\* C10 witness: such a walk, which asked for the project's latest.md and for
\* its folder and was answered 404 both times
C10_Witness ==
    /\ Walked /\ ProjectAbsent(call.args.project) /\ RootRetrievable
    /\ call.args.project = Proj
    /\ Len(walk.log) = 4
    /\ Remote[walk.log[3].url].status = 404
    /\ Remote[walk.log[4].url].status = 404
    /\ walk.transcripts = <<"root latest">>

\* C11: retrieveTranscripts without a project (undefined, or the empty string)
\* requests nothing but the metadata of the root transcripts/latest.md and the
\* download url that metadata names, whatever the repository holds for
\* projects, and when the root file is retrievable it returns exactly its body.
C11_RootOnly ==
    (Walked /\ call.args.project \in {Undef, ""}) =>
        /\ ~walk.exc.threw
        /\ Len(walk.log) \in 1..2
        /\ walk.log[1] = [url |-> uLatest, step |-> "latest"]
        /\ Len(walk.log) = 2 =>
              /\ walk.log[2].step = "latest_raw"
              /\ walk.log[2].url = Remote[uLatest].body.download_url
        /\ \A i \in 1..Len(walk.log) : ~UnderProject(walk.log[i].url)
        /\ RootRetrievable => walk.transcripts = <<Remote[uLatestRaw].body.raw>>
        /\ ~RootRetrievable => walk.transcripts = <<>>

\* C11 witness: a walk without a project over the base repository, which holds
\* a project with archives, returned the root body after two requests
C11_Witness ==
    /\ Walked /\ call.args.project = Undef
    /\ server.base = "tree" /\ server.faults = NoFaults
    /\ Len(Remote[uFolder].body.items) > 0
    /\ Len(walk.log) = 2
    /\ walk.transcripts = <<"root latest">>

\* the places of the request log that hold a request of the given step
StepsAt(step) == {i \in 1..Len(walk.log) : walk.log[i].step = step}

\* the entries of the listing a request of the log was answered with
ListedBy(i) ==
    LET r == Fetch(Remote, walk.log[i].url)
    IN  IF r.kind = "http" /\ Success(r.status) /\ r.body.form = "array"
        THEN r.body.items ELSE <<>>

\* the entries (request, place in its listing) that the listings returned to
\* the requests of a step hold and that satisfy Wanted
EntriesListedAt(step, Wanted(_)) ==
    UNION {{<<i, j>> : j \in {k \in 1..Len(ListedBy(i)) : Wanted(ListedBy(i)[k])}} :
             i \in StepsAt(step)}

IsDir(e) == e.type = "dir"

IsTranscriptFile(e) == HasSuffixMd(e.name) /\ e.download_url # NoUrl

\* C16: the walk ends, and its requests are bounded by the listings it was
\* given, also when entries point back at an ancestor: each latest.md and the
\* project folder are requested at most once, a year folder at most once for
\* each 4-digit directory entry of the project listing, a date folder at most
\* once for each directory entry of a listed year folder, a file at most once
\* for each .md entry with a download_url of a listed date folder, and
\* nothing below that.
C16_BoundedWalk ==
    Walked =>
        /\ ~walk.exc.threw
        /\ \A i \in 1..Len(walk.log) :
              walk.log[i].step \in {"latest", "latest_raw", "project_latest",
                                    "project_latest_raw", "project_folder",
                                    "year", "date", "file_raw"}
        /\ \A step \in {"latest", "latest_raw", "project_latest", "project_latest_raw",
                          "project_folder"} : Cardinality(StepsAt(step)) <= 1
        /\ Cardinality(StepsAt("year"))
              <= Cardinality(EntriesListedAt("project_folder", FourDigitDir))
        /\ Cardinality(StepsAt("date")) <= Cardinality(EntriesListedAt("year", IsDir))
        /\ Cardinality(StepsAt("file_raw")) <= Cardinality(EntriesListedAt("date", IsTranscriptFile))

\* C16 witness: a walk over a project listing whose year folder 1999 points
\* back at the project folder itself: the folder was listed again as a year
\* folder, and the walk ended
C16_Witness ==
    /\ Walked /\ call.args.project = Proj
    /\ \E i \in StepsAt("year") : walk.log[i].url = uFolder
    /\ \E i \in StepsAt("date") : TRUE
    /\ walk.transcripts # <<>>

----------------------------------------------------------------------------
(* Tool Dispatch: the CallTool request handler *)

\* arguments: undefined of request.params
NoArgs == [none |-> TRUE]

\* what a handler did: the fields of the logger and the file after it, the
\* requests it made, the exception it threw or the text it returned
Effect(cfg, f, cum) ==
    [config |-> cfg, file |-> f, currentUserMessage |-> cum, posted |-> <<>>,
     relay |-> NoRelay, wrote |-> FALSE, walk |-> NoWalk, exc |-> NoThrow, text |-> <<>>]

NotConfiguredMessage == <<"GitHub logging not configured. Run setup_github_logging first.">>

\* the session ids generateSessionId() may return
SessionIds == {"claude-1", "claude-2"}

\* case "setup_github_logging"
setup_github_logging(f, cfg, cum, args, sid, outcome) ==
    IF args = NoArgs
    THEN [Effect(cfg, f, cum) EXCEPT !.exc = Throw(<<"No arguments provided">>)]
    ELSE LET c  == LoggerConfig(args.webhook_url, args.github_repo, sid,
                                args.auto_log # <<FALSE>>, args.project, args.github_token)
             sv == saveConfig(f, c, outcome)
         IN  [Effect(sv.config, sv.file, cum) EXCEPT
                !.wrote = TRUE,
                !.exc = sv.exc,
                !.text = <<"GitHub logging configured successfully!",
                           "- Webhook: ", Str(c.webhook_url),
                           "- Repository: ", Str(c.github_repo),
                           "- GitHub Token: ",
                           IF Truthy(c.github_token) THEN "Configured (hidden for security)"
                           ELSE "Not provided",
                           "- Session ID: ", Str(c.session_id),
                           "- Auto-logging: ", IF c.auto_log THEN "Enabled" ELSE "Disabled",
                           "- Project: ", OrElse(c.project, "None"),
                           "Your conversations will now be logged to GitHub via n8n with authenticated access.">>]

\* case "log_conversation"
log_conversation(f, cfg, cum, args, web) ==
    IF args = NoArgs
    THEN [Effect(cfg, f, cum) EXCEPT !.exc = Throw(<<"No arguments provided">>)]
    ELSE LET lc == loadConfig(f, cfg)
         IN  IF lc.exc.threw THEN [Effect(lc.config, f, cum) EXCEPT !.exc = lc.exc]
             ELSE IF lc.config = Null
             THEN [Effect(lc.config, f, cum) EXCEPT !.exc = Throw(NotConfiguredMessage)]
             ELSE LET entry == ChatLogEntry(lc.config.session_id, args.user_message,
                                            args.assistant_message, args.tools_used,
                                            OrElse(args.project, lc.config.project))
                      sent  == sendToN8N(lc.config, entry, web)
                      base  == [Effect(lc.config, f, cum) EXCEPT
                                  !.posted = sent.posted, !.relay = sent]
                  IN  IF sent.exc.threw THEN [base EXCEPT !.exc = sent.exc]
                      ELSE IF sent.value.json = "null"
                      THEN [base EXCEPT !.exc =
                              Throw(<<"Cannot read properties of null (reading 'latest_url')">>)]
                      ELSE [base EXCEPT !.text =
                              <<"Conversation logged successfully!",
                                "- Session: ", Str(entry.session_id),
                                "- Tools used: ">>
                              \o (IF entry.tools_used = <<>> THEN <<"none">> ELSE entry.tools_used)
                              \o <<"- Project: ", OrElse(entry.project, "default"),
                                   "GitHub URLs:",
                                   "- Latest: ", OrElse(sent.value.latest_url, "N/A"),
                                   "- Dated: ", OrElse(sent.value.dated_url, "N/A"),
                                   "- Project Latest: ",
                                   OrElse(sent.value.project_latest_url, "N/A")>>]

\* (args?.limit as number) || 10
LimitOf(args) ==
    IF args = NoArgs THEN 10
    ELSE IF args.limit = <<>> \/ args.limit = <<0>> THEN 10
    ELSE args.limit[1]

\* `**Transcript ${idx + 1}:**\n${transcript}\n\n---\n` for each shown one
TranscriptSummary(limited) ==
    Concat([i \in 1..Len(limited) |->
              <<"**Transcript ", ToString(i), ":**", limited[i], "---">>])

\* case "retrieve_chat_history"
retrieve_chat_history(f, cfg, cum, args, srv) ==
    LET lc == loadConfig(f, cfg)
    IN  IF lc.exc.threw THEN [Effect(lc.config, f, cum) EXCEPT !.exc = lc.exc]
        ELSE IF lc.config = Null
        THEN [Effect(lc.config, f, cum) EXCEPT !.exc = Throw(NotConfiguredMessage)]
        ELSE LET w       == retrieveTranscripts(lc.config, srv,
                                                IF args = NoArgs THEN Undef ELSE args.project)
                 limited == SliceEnd(w.transcripts, LimitOf(args))
                 base    == [Effect(lc.config, f, cum) EXCEPT !.walk = w]
             IN  IF w.exc.threw THEN [base EXCEPT !.exc = w.exc]
                 ELSE IF Len(limited) = 0
                 THEN [base EXCEPT !.text = <<"No chat transcripts found in the repository.">>]
                 ELSE [base EXCEPT !.text =
                         <<"Found ", ToString(Len(w.transcripts)), " transcripts (showing ",
                           ToString(Len(limited)), "):">> \o TranscriptSummary(limited)]

StatusNotConfigured ==
    <<"GitHub logging is not configured. Run 'setup_github_logging' to get started.">>

\* (a variant of the status line that prints the token)
TokenStatus_shown(token) == Str(token)

\* ${config.github_token ? 'Configured' : 'Missing'}
TokenStatus(token) == IF Truthy(token) THEN "Configured" ELSE "Missing"

\* case "get_logger_status"
get_logger_status(f, cfg, cum) ==
    LET lc == loadConfig(f, cfg)
    IN  IF lc.exc.threw THEN [Effect(lc.config, f, cum) EXCEPT !.exc = lc.exc]
        ELSE IF lc.ret = Null
        THEN [Effect(lc.config, f, cum) EXCEPT !.text = StatusNotConfigured]
        ELSE [Effect(lc.config, f, cum) EXCEPT !.text =
                <<"GitHub Logger Status:",
                  "Configured: Yes",
                  "Webhook: ", Str(lc.ret.webhook_url),
                  "Repository: ", Str(lc.ret.github_repo),
                  "GitHub Token: ", TokenStatus(lc.ret.github_token),
                  "Session: ", Str(lc.ret.session_id),
                  "Auto-logging: ", IF lc.ret.auto_log THEN "Enabled" ELSE "Disabled",
                  "Project: ", OrElse(lc.ret.project, "None"),
                  "Ready to log conversations to GitHub with authenticated access!">>]

\* case "update_session_context"
update_session_context(f, cfg, cum, args) ==
    IF args = NoArgs
    THEN [Effect(cfg, f, cum) EXCEPT !.exc = Throw(<<"No arguments provided">>)]
    ELSE [Effect(cfg, f, args.user_message) EXCEPT
            !.text = <<"Session context updated. User message prepared for logging.">>]

\* default: of the switch
unknown_tool(f, cfg, cum, name) ==
    [Effect(cfg, f, cum) EXCEPT !.exc = Throw(<<"Unknown tool: ", name>>)]

\* (a variant without the catch: an exception leaves the handler and no
\* response is returned)
Respond_uncaught(eff) ==
    IF eff.exc.threw THEN [isError |-> FALSE, text |-> <<>>]
    ELSE [isError |-> FALSE, text |-> eff.text]

\* the try/catch of the handler: the text of the case, or the message of the
\* exception flagged isError
Respond(eff) ==
    IF eff.exc.threw THEN [isError |-> TRUE, text |-> <<"Error: ">> \o eff.exc.message]
    ELSE [isError |-> FALSE, text |-> eff.text]

\* the state after a tool call that had the effect eff
Answered(name, args, eff) ==
    /\ call' = [name |-> name, args |-> args]
    /\ response' = Respond(eff)
    /\ config' = eff.config
    /\ file' = eff.file
    /\ currentUserMessage' = eff.currentUserMessage
    /\ posted' = eff.posted
    /\ relay' = eff.relay
    /\ wrote' = eff.wrote
    /\ walk' = eff.walk
    /\ UNCHANGED <<server, loaded>>

----------------------------------------------------------------------------
(* The tool calls of the model and the specification of the server *)

Hook == "https://n8n.example/webhook/log"

SetupArgs(webhook_url, github_repo, github_token, project, auto_log) ==
    [webhook_url |-> webhook_url, github_repo |-> github_repo,
     github_token |-> github_token, project |-> project, auto_log |-> auto_log]

\* arguments of setup_github_logging: complete ones, and ones with a
\* required argument missing
SetupCalls ==
    {NoArgs,
     SetupArgs(Hook, Repo, "ghp_a", Proj, <<>>),
     SetupArgs(Hook, Repo, "ghp_b", Undef, <<FALSE>>),
     SetupArgs(Undef, Repo, "ghp_a", Undef, <<>>),
     SetupArgs(Hook, Undef, "ghp_a", Undef, <<>>),
     SetupArgs(Hook, Repo, Undef, Undef, <<TRUE>>)}

LogArgs(user_message, assistant_message, tools_used, project) ==
    [user_message |-> user_message, assistant_message |-> assistant_message,
     tools_used |-> tools_used, project |-> project]

\* arguments of log_conversation (an omitted tools_used is the empty list)
LogCalls ==
    {NoArgs,
     LogArgs("hi", "hello", <<"search">>, "q"),
     LogArgs("hi", "hello", <<>>, Undef),
     LogArgs(Undef, "hello", <<>>, Undef),
     LogArgs("hi", Undef, <<>>, Undef)}

\* what the webhook endpoint may do with a POST
WebOutcomes ==
    {WebThrow,
     WebHttp(200, ReplyObject("X", Undef, Undef)),
     WebHttp(201, ReplyObject("X", "Y", "Z")),
     WebHttp(299, ReplyNull),
     WebHttp(200, ReplyNotJson),
     WebHttp(301, ReplyObject("X", Undef, Undef)),
     WebHttp(404, ReplyNotJson),
     WebHttp(500, ReplyObject(Undef, Undef, Undef))}

RetrieveArgs(project, limit) == [project |-> project, limit |-> limit]

\* arguments of retrieve_chat_history
RetrieveCalls ==
    {NoArgs} \cup
    {RetrieveArgs(p, l) : p \in {Undef, Proj}, l \in {<<>>, <<0>>, <<1>>, <<2>>, <<-1>>, <<11>>}}

\* arguments of update_session_context
UpdateCalls == {NoArgs, [user_message |-> "hi"], [user_message |-> Undef]}

\* the repositories the tools are run against: the base one, one with twelve
\* transcripts, one without anything, one whose requests fail
ToolServers ==
    {RepoDesc(b, "none", <<>>, NoFaults) : b \in {"tree", "big", "empty"}}
    \cup {RepoDesc("tree", "none", <<>>, (uLatest :> "throw") @@ (uFolder :> "notjson"))}

\* a configuration file left by an earlier run of the server
EarlierConfig == LoggerConfig(Hook, Repo, "claude-0", TRUE, Undef, "ghp_a")

\* the state after construction: no config in memory; the file is absent,
\* unreadable, malformed or left by an earlier run
Init ==
    /\ config = Null
    /\ file \in {FileMissing, FileUnreadable, FileMalformed,
                 FileJson(JsonStringify(EarlierConfig))}
    /\ currentUserMessage = ""
    /\ call = NoCall
    /\ response = NoResponse
    /\ posted = <<>>
    /\ relay = NoRelay
    /\ wrote = FALSE
    /\ server = RepoDesc("tree", "none", <<>>, NoFaults)
    /\ walk = NoWalk
    /\ loaded = Null

SetupGithubLogging ==
    \E args \in SetupCalls, sid \in SessionIds, outcome \in WriteOutcomes :
        Answered("setup_github_logging", args,
                 setup_github_logging(file, config, currentUserMessage, args, sid, outcome))

LogConversation ==
    \E args \in LogCalls, web \in WebOutcomes :
        Answered("log_conversation", args,
                 log_conversation(file, config, currentUserMessage, args, web))

RetrieveChatHistory ==
    \E args \in RetrieveCalls :
        Answered("retrieve_chat_history", args,
                 retrieve_chat_history(file, config, currentUserMessage, args,
                                       Repository(server)))

GetLoggerStatus ==
    Answered("get_logger_status", NoArgs,
             get_logger_status(file, config, currentUserMessage))

UpdateSessionContext ==
    \E args \in UpdateCalls :
        Answered("update_session_context", args,
                 update_session_context(file, config, currentUserMessage, args))

UnknownTool ==
    Answered("delete_history", NoArgs,
             unknown_tool(file, config, currentUserMessage, "delete_history"))

\* the remote repository changes between two tool calls
RepoChanges ==
    /\ server' \in ToolServers \ {server}
    /\ UNCHANGED <<file, config, currentUserMessage, call, response, posted, relay,
                   wrote, walk, loaded>>

Next ==
    \/ SetupGithubLogging
    \/ LogConversation
    \/ RetrieveChatHistory
    \/ GetLoggerStatus
    \/ UpdateSessionContext
    \/ UnknownTool
    \/ RepoChanges

Spec == Init /\ [][Next]_vars

----------------------------------------------------------------------------
(* The configuration store on its own: saveConfig and loadConfig called
   directly, with every LoggerConfig of the value sets below *)

StoreConfigs ==
    {LoggerConfig(w, r, "claude-1", a, p, t) :
        w \in {Undef, Hook}, r \in {Undef, Repo}, a \in BOOLEAN,
        p \in {Undef, "", Proj}, t \in {Undef, "", "ghp_a"}}

InitStore ==
    /\ config = Null
    /\ file \in {FileMissing, FileUnreadable, FileMalformed}
    /\ currentUserMessage = ""
    /\ call = NoCall
    /\ response = NoResponse
    /\ posted = <<>>
    /\ relay = NoRelay
    /\ wrote = FALSE
    /\ server = RepoDesc("tree", "none", <<>>, NoFaults)
    /\ walk = NoWalk
    /\ loaded = Null

\* await logger.saveConfig(c): response records whether the call raised
StoreSave(c, outcome) ==
    LET sv == saveConfig(file, c, outcome)
    IN  /\ config' = sv.config
        /\ file' = sv.file
        /\ call' = [name |-> "saveConfig", args |-> c]
        /\ response' = [isError |-> sv.exc.threw, text |-> sv.exc.message]
        /\ wrote' = TRUE
        /\ loaded' = Null
        /\ UNCHANGED <<currentUserMessage, posted, relay, server, walk>>

\* await logger.loadConfig(): loaded is the value returned
StoreLoad ==
    LET lc == loadConfig(file, config)
    IN  /\ config' = lc.config
        /\ loaded' = lc.ret
        /\ call' = [name |-> "loadConfig", args |-> NoArgs]
        /\ response' = [isError |-> lc.exc.threw, text |-> lc.exc.message]
        /\ wrote' = FALSE
        /\ UNCHANGED <<file, currentUserMessage, posted, relay, server, walk>>

NextStore ==
    \/ \E c \in StoreConfigs, outcome \in WriteOutcomes : StoreSave(c, outcome)
    \/ StoreLoad

SpecStore == InitStore /\ [][NextStore]_vars

\* C4: a loadConfig() that follows a successful saveConfig(c), nothing having
\* written the file in between, returns a value with the fields of c, and
\* this.config holds it too.
C4_SaveLoadRoundTrip ==
    [][(call.name = "saveConfig" /\ ~response.isError /\ call'.name = "loadConfig")
          => (loaded' = call.args /\ config' = call.args)]_vars

\* C4 witness: a config without project, with an empty token and auto_log
\* off, returned by loadConfig from the file a saveConfig wrote
C4_Witness ==
    /\ call.name = "loadConfig"
    /\ file.kind = "json"
    /\ loaded # Null
    /\ loaded.project = Undef /\ "project" \notin DOMAIN file.text
    /\ loaded.github_token = ""
    /\ loaded.auto_log = FALSE
    /\ loaded.webhook_url = Hook

\* C5: loadConfig() does not raise, and with the file missing, unreadable or
\* malformed it returns null.
C5_LoadNeverRaises ==
    call.name = "loadConfig" =>
        /\ ~response.isError
        /\ file.kind \in {"missing", "unreadable", "malformed"} => loaded = Null

\* C5 witness: loadConfig returned null for a malformed file (one that a
\* failed write cut short) while this.config still held a config
C5_Witness ==
    /\ call.name = "loadConfig"
    /\ file.kind = "malformed"
    /\ loaded = Null
    /\ ~response.isError
    /\ config # Null

----------------------------------------------------------------------------
(* Properties of the tools, checked under Spec *)

\* the call of the current state was made with no LoggerConfig in the file
\* (log_conversation, retrieve_chat_history and get_logger_status do not
\* write the file, so the file of the state is the file of the call)
NoConfigOnDisk == file.kind \in {"missing", "unreadable", "malformed"}

\* C3: with no LoggerConfig at the time of the call (the file is absent or
\* cannot be parsed), log_conversation and retrieve_chat_history answer with
\* the error-flagged 'not configured' response and make no webhook POST and
\* no repository request, and get_logger_status reports 'not configured'.
\* (Any of the handler's 'not configured' messages is accepted as that response.)
C3_UnconfiguredRejected ==
    /\ (call.name \in {"log_conversation", "retrieve_chat_history"}
          /\ call.args # NoArgs /\ NoConfigOnDisk)
       => /\ response.isError
          /\ response.text \in {<<"Error: ">> \o NotConfiguredMessage,
                                <<"Error: ", "Webhook URL not configured">>,
                                <<"Error: ", "GitHub repo not configured">>}
          /\ posted = <<>>
          /\ walk.log = <<>>
    /\ (call.name = "get_logger_status" /\ NoConfigOnDisk)
       => response = [isError |-> FALSE, text |-> StatusNotConfigured]

\* C6: sendToN8N with a webhook configured makes one POST to it; a response
\* with a status outside 200-299 makes it throw an Error whose message holds
\* the status code, which log_conversation returns flagged isError with that
\* message; a response with a status in 200-299 and a JSON body makes it
\* return that JSON value as it is.
C6_RelayOutcome ==
    (call.name = "log_conversation" /\ relay.called /\ Truthy(config.webhook_url)) =>
        /\ Len(posted) = 1
        /\ posted[1].url = config.webhook_url
        /\ (relay.web.kind = "http" /\ ~Success(relay.web.status)) =>
              /\ relay.exc.threw
              /\ \E i \in 1..Len(relay.exc.message) :
                    relay.exc.message[i] = ToString(relay.web.status)
              /\ response.isError
              /\ response.text = <<"Error: ">> \o relay.exc.message
        /\ (relay.web.kind = "http" /\ Success(relay.web.status)
              /\ relay.web.reply.json # "invalid") =>
              /\ ~relay.exc.threw
              /\ relay.value = relay.web.reply

\* C6 witness: a POST answered 301, returned as 'Error: HTTP 301: Moved Permanently'
C6_Witness ==
    /\ call.name = "log_conversation"
    /\ relay.called
    /\ Len(posted) = 1
    /\ relay.web.kind = "http" /\ relay.web.status = 301
    /\ response = [isError |-> TRUE,
                   text |-> <<"Error: ", "HTTP ", "301", ": ", "Moved Permanently">>]

\* the limit a retrieve_chat_history call asks for: 10 when it gives none
RequestedLimit(args) ==
    IF args = NoArgs THEN 10 ELSE IF args.limit = <<>> THEN 10 ELSE args.limit[1]

\* the transcript bodies a retrieve_chat_history response text shows
ShownBodies(text) ==
    IF Len(text) < 5 \/ text[1] # "Found " THEN <<>>
    ELSE [i \in 1..((Len(text) - 5) \div 5) |-> text[5 * i + 4]]

\* C7: retrieve_chat_history shows at most limit bodies (10 without a limit
\* argument), the first ones collected, reports the total beside the number
\* shown, and answers 'no transcripts found' when it shows none.
C7_LimitRespected ==
    (call.name = "retrieve_chat_history" /\ ~response.isError) =>
        LET shown == ShownBodies(response.text)
            limit == RequestedLimit(call.args)
        IN  /\ Len(shown) <= (IF limit < 0 THEN 0 ELSE limit)
            /\ shown = SubSeq(walk.transcripts, 1, Len(shown))
            /\ shown # <<>> => /\ response.text[2] = ToString(Len(walk.transcripts))
                               /\ response.text[4] = ToString(Len(shown))
            /\ shown = <<>> =>
                  response.text = <<"No chat transcripts found in the repository.">>

\* a call that lacks an argument its tool requires
MissingRequired ==
    \/ /\ call.name = "setup_github_logging"
       /\ \/ call.args = NoArgs
          \/ Undef \in {call.args.webhook_url, call.args.github_repo, call.args.github_token}
    \/ /\ call.name = "log_conversation"
       /\ \/ call.args = NoArgs
          \/ Undef \in {call.args.user_message, call.args.assistant_message}
    \/ /\ call.name = "update_session_context"
       /\ \/ call.args = NoArgs
          \/ call.args.user_message = Undef

\* C8: a call that lacks a required argument is answered with an
\* error-flagged response, and no POST, no repository request and no write of
\* the configuration file is made for it.
C8_MissingArgumentRejected ==
    MissingRequired =>
        /\ response.isError
        /\ posted = <<>>
        /\ walk.log = <<>>
        /\ ~wrote

\* the configuration in memory is one a setup_github_logging call saved: the
\* file holds it
SavedConfig ==
    /\ config # Null
    /\ file.kind = "json"
    /\ JsonParse(file.text) = config

\* the tools other than setup_github_logging
OtherTools ==
    {"log_conversation", "retrieve_chat_history", "get_logger_status",
     "update_session_context"}

\* C12: once a setup_github_logging call has saved a config, no call of
\* another tool changes the session_id of the configuration (in memory or in
\* the file), and every log_conversation POST carries that session_id.
C12_SessionIdStable ==
    [][(SavedConfig /\ call'.name \in OtherTools) =>
          /\ SavedConfig'
          /\ config'.session_id = config.session_id
          /\ \A i \in 1..Len(posted') : posted'[i].body.session_id = config.session_id]_vars

\* C12 witness: a setup call saved session claude-2 over the earlier
\* claude-0, and a later log_conversation sent claude-2 to the webhook
C12_Witness ==
    /\ call.name = "log_conversation"
    /\ SavedConfig
    /\ config.session_id = "claude-2"
    /\ Len(posted) = 1
    /\ posted[1].body.session_id = "claude-2"

\* token values that differ from every other value of the model
TokenValues == {"ghp_a", "ghp_b", "ghp_c"}

\* a configuration, and a configuration file, with the token replaced by t
WithToken(cfg, t) == IF cfg = Null THEN cfg ELSE [cfg EXCEPT !.github_token = t]

FileWithToken(f, t) ==
    IF f.kind = "json" THEN FileJson(JsonStringify(WithToken(JsonParse(f.text), t))) ELSE f

\* whether the configuration of the file, the one get_logger_status reports,
\* holds a token
TokenPresent(f) == f.kind = "json" /\ JsonParse(f.text).github_token \in TokenValues

\* the text holds the value v as one of its pieces
TextHolds(text, v) == \E i \in 1..Len(text) : text[i] = v

\* C13: the text of get_logger_status is the same for configurations that
\* differ only in the value of a token that is present, and it holds no token
\* value; the text setup_github_logging answers with is the same for
\* arguments that differ only in the value of the token, and holds no token value.
C13_TokenRedacted ==
    [][/\ (call'.name = "get_logger_status" /\ TokenPresent(file)) =>
             /\ \A t, u \in TokenValues :
                   Respond(get_logger_status(FileWithToken(file, t), WithToken(config, u),
                                             currentUserMessage)) = response'
             /\ \A t \in TokenValues : ~TextHolds(response'.text, t)
       /\ (call'.name = "setup_github_logging" /\ call'.args # NoArgs
              /\ call'.args.github_token \in TokenValues /\ wrote') =>
             /\ \A t \in TokenValues : \E sid \in SessionIds, outcome \in WriteOutcomes :
                   /\ (outcome = "ok") = ~response'.isError
                   /\ Respond(setup_github_logging(file, config, currentUserMessage,
                                  [call'.args EXCEPT !.github_token = t], sid, outcome))
                         = response'
             /\ \A t \in TokenValues : ~TextHolds(response'.text, t)]_vars

\* C13 witness: get_logger_status answered 'Configured' for a configuration
\* that holds the token ghp_b
C13_Witness ==
    /\ call.name = "get_logger_status"
    /\ config # Null /\ config.github_token = "ghp_b"
    /\ file.kind = "json" /\ JsonParse(file.text).github_token = "ghp_b"
    /\ TextHolds(response.text, "GitHub Token: ")
    /\ TextHolds(response.text, "Configured")
    /\ ~TextHolds(response.text, "ghp_b")

\* the tool names of the model, an unknown one included
ToolNames == OtherTools \cup {"setup_github_logging", "delete_history"}

\* a response that is flagged isError and carries a message
ErrorPayload(r) ==
    /\ r.isError
    /\ Len(r.text) >= 2
    /\ r.text[1] = "Error: "
    /\ \A i \in 2..Len(r.text) : r.text[i] # ""

\* a response that is a plain payload with a text
SuccessPayload(r) == ~r.isError /\ r.text # <<>>

\* C14: every tool call, whatever its name and arguments and whatever fails
\* in it (the write of the file, the webhook, the repository), is answered
\* with one response, a success payload or an isError payload with a message;
\* what sendToN8N or retrieveTranscripts throws comes back as that message.
C14_AlwaysAnswered ==
    (call # NoCall) =>
        /\ call.name \in ToolNames
        /\ SuccessPayload(response) \/ ErrorPayload(response)
        /\ (relay.called /\ relay.exc.threw) =>
              response = [isError |-> TRUE, text |-> <<"Error: ">> \o relay.exc.message]
        /\ (walk.called /\ walk.exc.threw) =>
              response = [isError |-> TRUE, text |-> <<"Error: ">> \o walk.exc.message]
        /\ call.name = "delete_history" =>
              response = [isError |-> TRUE, text |-> <<"Error: ", "Unknown tool: ", "delete_history">>]

\* C14 witness: a log_conversation whose POST was rejected by the network is
\* answered with the error of the request
C14_Witness ==
    /\ call.name = "log_conversation"
    /\ relay.called /\ relay.web.kind = "throw"
    /\ ErrorPayload(response)
    /\ response.text = <<"Error: ", "request to webhook failed">>

\* C15: a setup_github_logging call whose write of the file fails is answered
\* with an isError response and leaves the configuration as it was: this.config
\* and the file hold what they held before the call.
C15_FailedSaveChangesNothing ==
    [][(call'.name = "setup_github_logging" /\ wrote' /\ response'.isError) =>
          /\ config' = config
          /\ file' = file]_vars

====
